---- MODULE Spec2Model ----
(***************************************************************************)
(* Korean predicate conjugation: the Hangul jamo codec (utils.py), the     *)
(* rule modules (rules/*.py) and the rule dispatcher (conjugator.py).      *)
(*                                                                         *)
(* A Python string is a sequence of code points; a one-character string is *)
(* a sequence of length one and '' is <<>>.  Python indices are 0-based,   *)
(* the sequences here are 1-based.                                         *)
(***************************************************************************)
EXTENDS Integers, Sequences, FiniteSets

----------------------------------------------------------------------------
(* Bounds of the explored inputs *)

MaxTextLen == 2     \* longest text given to decompose_str
MaxJamoLen == 4     \* longest jamo sequence given to compose_str directly
MaxStemLen == 2     \* longest stem given to conjugate
MaxEndLen == 2      \* longest syllable ending given to conjugate
MaxMorphs == 3      \* most morphemes in the analysis of one word

----------------------------------------------------------------------------
(* utils.py: constants *)

HANGUL_BASE == 44032
HANGUL_END == 55203

CHOSUNG_LIST ==
    << <<12593>>, <<12594>>, <<12596>>, <<12599>>, <<12600>>, <<12601>>,
       <<12609>>, <<12610>>, <<12611>>, <<12613>>, <<12614>>, <<12615>>,
       <<12616>>, <<12617>>, <<12618>>, <<12619>>, <<12620>>, <<12621>>,
       <<12622>> >>

JUNGSUNG_LIST ==
    << <<12623>>, <<12624>>, <<12625>>, <<12626>>, <<12627>>, <<12628>>,
       <<12629>>, <<12630>>, <<12631>>, <<12632>>, <<12633>>, <<12634>>,
       <<12635>>, <<12636>>, <<12637>>, <<12638>>, <<12639>>, <<12640>>,
       <<12641>>, <<12642>>, <<12643>> >>

JONGSUNG_LIST ==
    << <<>>, <<12593>>, <<12594>>, <<12595>>, <<12596>>, <<12597>>,
       <<12598>>, <<12599>>, <<12601>>, <<12602>>, <<12603>>, <<12604>>,
       <<12605>>, <<12606>>, <<12607>>, <<12608>>, <<12609>>, <<12610>>,
       <<12612>>, <<12613>>, <<12614>>, <<12615>>, <<12616>>, <<12618>>,
       <<12619>>, <<12620>>, <<12621>>, <<12622>> >>

\* Python's None, which is no string
None == <<-1>>

\* truth value of a Python object that is None or a string
Truthy(s) == s # None /\ s # <<>>

\* x in list
InList(x, list) == \E k \in 1..Len(list) : list[k] = x

\* the 0-based index of x in list (the value of the index dictionary)
Index0(x, list) == (CHOOSE k \in 1..Len(list) : list[k] = x) - 1

CHOSUNG_DICT(x) == Index0(x, CHOSUNG_LIST)
JUNGSUNG_DICT(x) == Index0(x, JUNGSUNG_LIST)
JONGSUNG_DICT(x) == Index0(x, JONGSUNG_LIST)

----------------------------------------------------------------------------
(* utils.py: one syllable *)

is_hangul(char) ==
    IF char = <<>> THEN FALSE
    ELSE HANGUL_BASE <= char[1] /\ char[1] <= HANGUL_END

decompose_final_mod_21(char) ==
    IF ~is_hangul(char) THEN <<char, <<>>, <<>>>>
    ELSE LET code == char[1] - HANGUL_BASE
             jongsung_idx == code % 21
             jungsung_idx == ((code - jongsung_idx) \div 28) % 21
             chosung_idx == ((code - jongsung_idx) \div 28) \div 21
         IN  <<CHOSUNG_LIST[chosung_idx + 1],
               JUNGSUNG_LIST[jungsung_idx + 1],
               JONGSUNG_LIST[jongsung_idx + 1]>>

decompose(char) ==
    IF ~is_hangul(char) THEN <<char, <<>>, <<>>>>
    ELSE LET code == char[1] - HANGUL_BASE
             jongsung_idx == code % 28
             jungsung_idx == ((code - jongsung_idx) \div 28) % 21
             chosung_idx == ((code - jongsung_idx) \div 28) \div 21
         IN  <<CHOSUNG_LIST[chosung_idx + 1],
               JUNGSUNG_LIST[jungsung_idx + 1],
               JONGSUNG_LIST[jongsung_idx + 1]>>

compose(chosung, jungsung, jongsung) ==
    IF ~InList(chosung, CHOSUNG_LIST) \/ ~InList(jungsung, JUNGSUNG_LIST)
    THEN chosung \o jungsung \o jongsung
    ELSE LET chosung_idx == CHOSUNG_DICT(chosung)
             jungsung_idx == JUNGSUNG_DICT(jungsung)
             jongsung_idx == IF InList(jongsung, JONGSUNG_LIST)
                             THEN JONGSUNG_DICT(jongsung) ELSE 0
         IN  <<HANGUL_BASE + (chosung_idx * 21 + jungsung_idx) * 28 + jongsung_idx>>

is_consonant_jamo(char) ==
    InList(char, CHOSUNG_LIST) \/ InList(char, SubSeq(JONGSUNG_LIST, 2, Len(JONGSUNG_LIST)))

is_vowel_jamo(char) == InList(char, JUNGSUNG_LIST)

----------------------------------------------------------------------------
(* utils.py: strings *)

RECURSIVE decompose_str_drops_final(_)
decompose_str_drops_final(t) ==
    IF t = <<>> THEN <<>>
    ELSE LET char == <<Head(t)>>
             d == decompose(char)
         IN  (IF is_hangul(char) THEN d[1] \o d[2] ELSE char)
             \o decompose_str_drops_final(Tail(t))

RECURSIVE decompose_str(_)
decompose_str(t) ==
    IF t = <<>> THEN <<>>
    ELSE LET char == <<Head(t)>>
             d == decompose(char)
         IN  (IF is_hangul(char) THEN d[1] \o d[2] \o d[3] ELSE char)
             \o decompose_str(Tail(t))

\* jamo_str[k] for a 1-based k; '' stands for "k is past the end", which the
\* code rules out with its k < len(jamo_str) tests before every access
At(s, k) == IF k >= 1 /\ k <= Len(s) THEN <<s[k]>> ELSE <<>>

\* one iteration of the while loop of compose_str at position k (1-based):
\* the position after it and the string it appends to result
compose_str_step_no_lookahead(s, k) ==
    LET char == At(s, k)
    IN  IF InList(char, CHOSUNG_LIST)
        THEN IF k + 1 <= Len(s) /\ InList(At(s, k + 1), JUNGSUNG_LIST)
             THEN IF k + 2 <= Len(s) /\ InList(At(s, k + 2), JONGSUNG_LIST)
                     /\ At(s, k + 2) # <<>>
                  THEN [next |-> k + 3,
                        out |-> compose(char, At(s, k + 1), At(s, k + 2))]
                  ELSE [next |-> k + 2,
                        out |-> compose(char, At(s, k + 1), <<>>)]
             ELSE [next |-> k + 1, out |-> char]
        ELSE [next |-> k + 1, out |-> char]

compose_str_step(s, k) ==
    LET char == At(s, k)
    IN  IF InList(char, CHOSUNG_LIST)
        THEN IF k + 1 <= Len(s) /\ InList(At(s, k + 1), JUNGSUNG_LIST)
             THEN IF k + 2 <= Len(s) /\ InList(At(s, k + 2), JONGSUNG_LIST)
                     /\ At(s, k + 2) # <<>>
                     /\ ~(k + 3 <= Len(s) /\ InList(At(s, k + 3), JUNGSUNG_LIST))
                  THEN [next |-> k + 3,
                        out |-> compose(char, At(s, k + 1), At(s, k + 2))]
                  ELSE [next |-> k + 2,
                        out |-> compose(char, At(s, k + 1), <<>>)]
             ELSE [next |-> k + 1, out |-> char]
        ELSE [next |-> k + 1, out |-> char]

RECURSIVE compose_str_from(_, _)
compose_str_from(s, k) ==
    IF k > Len(s) THEN <<>>
    ELSE LET st == compose_str_step(s, k)
         IN  st.out \o compose_str_from(s, st.next)

compose_str(s) == compose_str_from(s, 1)

----------------------------------------------------------------------------
(* Python str operations used by the rules *)

\* s.startswith(p)
startswith(s, p) == Len(p) <= Len(s) /\ SubSeq(s, 1, Len(p)) = p

\* s.endswith(p)
endswith(s, p) == Len(p) <= Len(s) /\ SubSeq(s, Len(s) - Len(p) + 1, Len(s)) = p

\* sub in s
contains(s, sub) ==
    \E k \in 1..(Len(s) - Len(sub) + 1) : SubSeq(s, k, k + Len(sub) - 1) = sub

\* s.rfind(sub), a 0-based position, -1 when sub is not in s
rfind(s, sub) ==
    LET hits == { k \in 1..(Len(s) - Len(sub) + 1) : SubSeq(s, k, k + Len(sub) - 1) = sub }
    IN  IF hits = {} THEN -1
        ELSE (CHOOSE k \in hits : \A m \in hits : m <= k) - 1

\* s.replace(old, new): every occurrence, left to right, without overlap
RECURSIVE replace(_, _, _)
replace(s, old, new) ==
    IF s = <<>> THEN <<>>
    ELSE IF startswith(s, old)
         THEN new \o replace(SubSeq(s, Len(old) + 1, Len(s)), old, new)
         ELSE <<Head(s)>> \o replace(Tail(s), old, new)

\* s.replace(old, new, 1): the first occurrence only
RECURSIVE replace_first(_, _, _)
replace_first(s, old, new) ==
    IF s = <<>> THEN <<>>
    ELSE IF startswith(s, old)
         THEN new \o SubSeq(s, Len(old) + 1, Len(s))
         ELSE <<Head(s)>> \o replace_first(Tail(s), old, new)

\* s[:-1]
DropLast(s) == SubSeq(s, 1, Len(s) - 1)

\* s[1:]
DropFirst(s) == SubSeq(s, 2, Len(s))

\* s[-1] of a non-empty s
LastChar(s) == <<s[Len(s)]>>

\* s[0] of a non-empty s
FirstChar(s) == <<s[1]>>

----------------------------------------------------------------------------
(* utils.py: classification of the last character *)

get_final_consonant(t) ==
    IF ~Truthy(t) THEN <<>>
    ELSE IF is_hangul(LastChar(t)) THEN decompose(LastChar(t))[3] ELSE <<>>

has_final_consonant(t) == get_final_consonant(t) # <<>>

get_vowel(t) ==
    IF ~Truthy(t) THEN <<>>
    ELSE IF is_hangul(LastChar(t)) THEN decompose(LastChar(t))[2] ELSE <<>>

\* a, o, ya, yo, wa
is_bright_vowel(vowel) ==
    vowel \in { <<12623>>, <<12631>>, <<12625>>, <<12635>>, <<12632>> }

----------------------------------------------------------------------------
(* Jamo, syllables and tag markers that the rules name *)

\* the compatibility jamo, by romanised name (ng is the null initial)
j ==
    [ g |-> <<12593>>, n |-> <<12596>>, d |-> <<12599>>, r |-> <<12601>>,
      m |-> <<12609>>, b |-> <<12610>>, s |-> <<12613>>, ng |-> <<12615>>,
      j |-> <<12616>>, ch |-> <<12618>>, k |-> <<12619>>, t |-> <<12620>>,
      p |-> <<12621>>, h |-> <<12622>>, a |-> <<12623>>, ae |-> <<12624>>,
      ya |-> <<12625>>, yae |-> <<12626>>, eo |-> <<12627>>, e |-> <<12628>>,
      yeo |-> <<12629>>, ye |-> <<12630>>, o |-> <<12631>>, wa |-> <<12632>>,
      oe |-> <<12634>>, yo |-> <<12635>>, u |-> <<12636>>, wo |-> <<12637>>,
      wi |-> <<12639>>, yu |-> <<12640>>, eu |-> <<12641>>, ui |-> <<12642>>,
      i |-> <<12643>>, dd |-> <<12600>> ]

\* the syllables, by romanised name
h ==
    [ ga |-> <<44032>>, a |-> <<50500>>, ae |-> <<50528>>, ya |-> <<50556>>,
      eo |-> <<50612>>, e |-> <<50640>>, yeo |-> <<50668>>, o |-> <<50724>>,
      oe |-> <<50808>>, u |-> <<50864>>, wi |-> <<50948>>, eu |-> <<51004>>,
      ui |-> <<51032>>, i |-> <<51060>>, neu |-> <<45712>>, reu |-> <<47476>>,
      reo |-> <<47084>>, pu |-> <<54392>>, peo |-> <<54140>>, ha |-> <<54616>>,
      hae |-> <<54644>>, joh |-> <<51339>>, gi |-> <<44592>>, mi |-> <<48120>>,
      bi |-> <<48708>>, tti |-> <<46944>> ]

\* the tag substring "irregular" (bul-gyu-chik)
t_irregular == <<48520, 44508, 52825>>
t_VV == <<86, 86>>
t_XSV == <<88, 83, 86>>

----------------------------------------------------------------------------
(* rules/vowel_harmony.py *)

apply_vowel_harmony_swaps(stem, ending) ==
    [k \in 1..Len(ending) |->
        IF <<ending[k]>> = h.eo THEN h.a[1]
        ELSE IF <<ending[k]>> = h.a THEN h.eo[1]
        ELSE ending[k]]

apply_vowel_harmony(stem, ending) ==
    IF ending = <<>> THEN ending
    ELSE LET last_vowel == get_vowel(stem)
         IN  IF last_vowel = <<>> THEN ending
             ELSE IF is_bright_vowel(last_vowel)
                  THEN replace(replace(replace(ending, h.eo, h.a), h.yeo, h.ya), h.e, h.ae)
                  ELSE replace(replace(replace(ending, h.a, h.eo), h.ya, h.yeo), h.ae, h.e)

get_harmonized_vowel(stem) ==
    LET last_vowel == get_vowel(stem)
    IN  IF last_vowel = <<>> THEN h.eo
        ELSE IF is_bright_vowel(last_vowel) THEN h.a ELSE h.eo

----------------------------------------------------------------------------
(* rules/contraction.py *)

\* the early return of apply_regular_contraction: one of gi, mi, bi, tti
\* occurs in the jamo string and its last occurrence is within the last six
EXCEPTION_PATTERNS == << j.g \o j.i, j.m \o j.i, j.b \o j.i, j.dd \o j.i >>

contraction_excepted(s) ==
    \E k \in 1..Len(EXCEPTION_PATTERNS) :
        /\ contains(s, EXCEPTION_PATTERNS[k])
        /\ rfind(s, EXCEPTION_PATTERNS[k]) >= Len(s) - 6

apply_regular_contraction(s) ==
    IF contraction_excepted(s) THEN s
    ELSE replace(replace(replace(s, j.i \o j.eo, j.yeo), j.u \o j.eo, j.wo),
                 j.o \o j.a, j.wa)

apply_b_irregular_contraction(s) ==
    replace(replace(s, j.o \o j.a, j.wa), j.u \o j.eo, j.wo)

REO_VOWELS == << j.a, j.eo, j.o, j.u, j.eu, j.i, j.ae, j.e, j.oe, j.wi, j.ui >>

RECURSIVE reo_replace(_, _)
reo_replace(s, k) ==
    IF k > Len(REO_VOWELS) THEN s
    ELSE reo_replace(replace(s, j.r \o j.ng \o REO_VOWELS[k], j.r \o REO_VOWELS[k]), k + 1)

apply_reo_irregular_contraction(s) == reo_replace(s, 1)

apply_h_irregular_contraction(s) ==
    replace(replace(s, j.a \o j.ng \o j.a, j.ae), j.eo \o j.ng \o j.eo, j.e)

apply_ida_contraction(s) ==
    replace(replace(replace(s, j.ng \o j.i \o j.eo, j.ng \o j.yeo),
                    j.ng \o j.i \o j.e, j.ng \o j.ye),
            j.ng \o j.i \o j.ya, j.ng \o j.ya)

should_contract(stem, ending) ==
    ~(\E exc \in {h.gi, h.mi, h.bi, h.tti} : endswith(stem, exc))

----------------------------------------------------------------------------
(* rules/l_drop.py *)

EPENTHETIC_ENDINGS == {j.n, j.b, j.s, j.m}

check_l_drop(stem, ending) ==
    IF get_final_consonant(stem) # j.r THEN FALSE
    ELSE IF startswith(ending, h.neu) THEN TRUE
    ELSE IF Len(ending) > 0 /\ FirstChar(ending) \in EPENTHETIC_ENDINGS THEN TRUE
    ELSE FALSE

apply_l_drop(stem, ending) ==
    IF ~check_l_drop(stem, ending) THEN None
    ELSE LET decomposed == decompose_str(stem)
             jamo_stem == IF endswith(decomposed, j.r) THEN DropLast(decomposed)
                          ELSE decomposed
             jamo_ending == IF Len(ending) > 0 /\ FirstChar(ending) \in EPENTHETIC_ENDINGS
                            THEN j.eu \o ending
                            ELSE decompose_str(ending)
         IN  compose_str(jamo_stem \o jamo_ending)

----------------------------------------------------------------------------
(* rules/ida.py *)

check_ida_any_final_i(stem) == stem # <<>> /\ LastChar(stem) = h.i

check_ida(stem) == stem = h.i

apply_ida_conjugation_harmonizes(prev_word, stem, ending) ==
    IF ~check_ida(stem) THEN None
    ELSE LET has_consonant == IF Truthy(prev_word) THEN has_final_consonant(prev_word)
                              ELSE TRUE
             jamo_combined == decompose_str(stem) \o decompose_str(ending)
         IN  IF has_consonant
             THEN compose_str(decompose_str(stem)
                                  \o decompose_str(apply_vowel_harmony(stem, ending)))
             ELSE compose_str(apply_ida_contraction(jamo_combined))

apply_ida_conjugation(prev_word, stem, ending) ==
    IF ~check_ida(stem) THEN None
    ELSE LET has_consonant == IF Truthy(prev_word) THEN has_final_consonant(prev_word)
                              ELSE TRUE
             jamo_combined == decompose_str(stem) \o decompose_str(ending)
         IN  IF has_consonant THEN compose_str(jamo_combined)
             ELSE compose_str(apply_ida_contraction(jamo_combined))

----------------------------------------------------------------------------
(* rules/regular.py *)

VOWEL_JAMO_17 ==
    { j.a, j.eo, j.o, j.u, j.eu, j.i, j.ae, j.e, j.oe, j.wi, j.ui,
      j.ya, j.yeo, j.yo, j.yu, j.yae, j.ye }

is_vowel_initial_ending(ending) ==
    IF ending = <<>> THEN FALSE
    ELSE IF FirstChar(ending) \in VOWEL_JAMO_17 THEN TRUE
    ELSE IF is_hangul(FirstChar(ending)) THEN decompose(FirstChar(ending))[1] = j.ng
    ELSE FALSE

apply_regular_conjugation_harmonizes_all(stem, ending) ==
    IF ending = <<>> THEN stem
    ELSE IF is_consonant_jamo(FirstChar(ending))
         THEN IF get_final_consonant(stem) # <<>>
              THEN compose_str(decompose_str(stem) \o j.ng \o j.eu \o FirstChar(ending))
                   \o DropFirst(ending)
              ELSE compose_str(decompose_str(stem) \o FirstChar(ending)) \o DropFirst(ending)
    ELSE IF ~is_vowel_initial_ending(ending) THEN stem \o apply_vowel_harmony(stem, ending)
    ELSE LET harmonized_ending == apply_vowel_harmony(stem, ending)
             jamo_combined == decompose_str(stem) \o decompose_str(harmonized_ending)
             jamo_contracted == IF should_contract(stem, ending)
                                THEN apply_regular_contraction(jamo_combined)
                                ELSE jamo_combined
         IN  compose_str(jamo_contracted)

apply_regular_conjugation_no_epenthesis(stem, ending) ==
    IF ending = <<>> THEN stem
    ELSE IF is_consonant_jamo(FirstChar(ending))
         THEN compose_str(decompose_str(stem) \o FirstChar(ending)) \o DropFirst(ending)
    ELSE IF ~is_vowel_initial_ending(ending) THEN stem \o ending
    ELSE LET harmonized_ending == apply_vowel_harmony(stem, ending)
             jamo_combined == decompose_str(stem) \o decompose_str(harmonized_ending)
             jamo_contracted == IF should_contract(stem, ending)
                                THEN apply_regular_contraction(jamo_combined)
                                ELSE jamo_combined
         IN  compose_str(jamo_contracted)

apply_regular_conjugation_contracts(stem, ending) ==
    IF ending = <<>> THEN stem
    ELSE IF is_consonant_jamo(FirstChar(ending))
         THEN IF get_final_consonant(stem) # <<>>
              THEN compose_str(decompose_str(stem) \o j.ng \o j.eu \o FirstChar(ending))
                   \o DropFirst(ending)
              ELSE compose_str(decompose_str(stem) \o FirstChar(ending)) \o DropFirst(ending)
    ELSE IF ~is_vowel_initial_ending(ending) THEN stem \o ending
    ELSE LET harmonized_ending == apply_vowel_harmony(stem, ending)
             jamo_combined == decompose_str(stem) \o DropFirst(decompose_str(harmonized_ending))
         IN  compose_str(jamo_combined)

apply_regular_conjugation(stem, ending) ==
    IF ending = <<>> THEN stem
    ELSE IF is_consonant_jamo(FirstChar(ending))
         THEN IF get_final_consonant(stem) # <<>>
              THEN compose_str(decompose_str(stem) \o j.ng \o j.eu \o FirstChar(ending))
                   \o DropFirst(ending)
              ELSE compose_str(decompose_str(stem) \o FirstChar(ending)) \o DropFirst(ending)
    ELSE IF ~is_vowel_initial_ending(ending) THEN stem \o ending
    ELSE LET harmonized_ending == apply_vowel_harmony(stem, ending)
             jamo_combined == decompose_str(stem) \o decompose_str(harmonized_ending)
             jamo_contracted == IF should_contract(stem, ending)
                                THEN apply_regular_contraction(jamo_combined)
                                ELSE jamo_combined
         IN  compose_str(jamo_contracted)

----------------------------------------------------------------------------
(* rules/irregular_*.py: the shared test "ending starts with a vowel" *)

VOWEL_START_LIST ==
    { j.a, j.eo, j.o, j.u, j.eu, j.i, j.ae, j.e, j.oe, j.wi, j.ui,
      h.a, h.eo, h.o, h.u, h.eu, h.i, h.ae, h.e, h.oe, h.wi, h.ui }

starts_with_listed_vowel(ending) ==
    ending # <<>> /\ FirstChar(ending) \in VOWEL_START_LIST

\* tag and marker in tag and 'bul-gyu-chik' in tag
tag_marks(tag, marker) ==
    Truthy(tag) /\ contains(tag, marker) /\ contains(tag, t_irregular)

\* stem[:-1] + compose(cho, jung, jong) of the last character
with_final(stem, jong) ==
    LET d == decompose(LastChar(stem))
    IN  DropLast(stem) \o compose(d[1], d[2], jong)

----------------------------------------------------------------------------
(* rules/irregular_s.py *)

check_s_irregular(stem, ending, tag) ==
    IF get_final_consonant(stem) # j.s THEN FALSE
    ELSE IF ~starts_with_listed_vowel(ending) THEN FALSE
    ELSE IF tag_marks(tag, j.s) THEN TRUE
    ELSE TRUE

apply_s_irregular(stem, ending) ==
    LET harmonized_ending == apply_vowel_harmony(stem, ending)
        decomposed == decompose_str(stem)
        jamo_stem == IF endswith(decomposed, j.s) THEN DropLast(decomposed) ELSE decomposed
    IN  compose_str(jamo_stem \o decompose_str(harmonized_ending))

----------------------------------------------------------------------------
(* rules/irregular_d.py *)

check_d_irregular(stem, ending, tag) ==
    IF get_final_consonant(stem) # j.d THEN FALSE
    ELSE IF ~starts_with_listed_vowel(ending) THEN FALSE
    ELSE IF tag_marks(tag, j.d) THEN TRUE
    ELSE FALSE

apply_d_irregular(stem, ending) ==
    with_final(stem, j.r) \o apply_vowel_harmony(stem, ending)

----------------------------------------------------------------------------
(* rules/irregular_b.py *)

count_syllables(t) == Cardinality({ k \in 1..Len(t) : is_hangul(<<t[k]>>) })

check_b_irregular(stem, ending, tag) ==
    IF get_final_consonant(stem) # j.b THEN FALSE
    ELSE IF ~starts_with_listed_vowel(ending) THEN FALSE
    ELSE IF tag_marks(tag, j.b) THEN TRUE
    ELSE FALSE

apply_b_irregular(stem, ending) ==
    LET inserted_vowel == IF count_syllables(stem) <= 1
                          THEN (IF get_harmonized_vowel(stem) = h.a THEN h.o ELSE h.u)
                          ELSE h.u
        new_stem == with_final(stem, <<>>)
        jamo_combined == decompose_str(new_stem) \o decompose_str(inserted_vowel)
                         \o decompose_str(ending)
    IN  compose_str(apply_b_irregular_contraction(jamo_combined))

----------------------------------------------------------------------------
(* rules/irregular_reo.py *)

check_reo_irregular(stem, ending, tag) ==
    IF get_final_consonant(stem) # <<>> THEN FALSE
    ELSE IF ~endswith(stem, h.reu) THEN FALSE
    ELSE IF ~starts_with_listed_vowel(ending) THEN FALSE
    ELSE IF tag_marks(tag, h.reo) THEN TRUE
    ELSE FALSE

apply_reo_irregular(stem, ending) ==
    LET base_stem == DropLast(stem)
        jamo_ending == decompose_str(IF Len(ending) > 1 THEN h.reo \o DropFirst(ending)
                                     ELSE h.reo)
        jamo_combined == decompose_str(base_stem) \o j.r \o jamo_ending
    IN  compose_str(apply_reo_irregular_contraction(jamo_combined))

----------------------------------------------------------------------------
(* rules/irregular_h.py *)

check_h_irregular(stem, ending, tag) ==
    IF get_final_consonant(stem) # j.h THEN FALSE
    ELSE IF stem = h.joh THEN FALSE
    ELSE IF ~starts_with_listed_vowel(ending) THEN FALSE
    ELSE IF tag_marks(tag, j.h) THEN TRUE
    ELSE TRUE

apply_h_irregular(stem, ending) ==
    LET harmonized_ending == apply_vowel_harmony(stem, ending)
        new_stem == with_final(stem, <<>>)
        jamo_combined == decompose_str(new_stem) \o decompose_str(harmonized_ending)
    IN  compose_str(apply_h_irregular_contraction(jamo_combined))

----------------------------------------------------------------------------
(* rules/irregular_u.py *)

check_u_irregular(stem, ending) ==
    IF stem # h.pu THEN FALSE
    ELSE IF ending = <<>> \/ ~startswith(ending, h.eo) THEN FALSE
    ELSE TRUE

apply_u_irregular(stem, ending) ==
    IF ~check_u_irregular(stem, ending) THEN None
    ELSE h.peo \o DropFirst(ending)

----------------------------------------------------------------------------
(* rules/irregular_yeo.py *)

check_yeo_irregular_ignores_tag(stem, ending, tag) ==
    IF stem # h.ha THEN FALSE
    ELSE IF ending = <<>> \/ ~(startswith(ending, h.eo) \/ startswith(ending, h.a))
         THEN FALSE
    ELSE TRUE

check_yeo_irregular(stem, ending, tag) ==
    IF stem # h.ha THEN FALSE
    ELSE IF ending = <<>> \/ ~(startswith(ending, h.eo) \/ startswith(ending, h.a))
         THEN FALSE
    ELSE IF Truthy(tag) /\ tag \notin {t_VV, t_XSV} THEN FALSE
    ELSE TRUE

apply_yeo_irregular(stem, ending) ==
    IF stem # h.ha THEN None
    ELSE LET replaced == replace_first(ending, h.eo, h.ae)
             first == IF startswith(replaced, h.ae) THEN h.hae ELSE h.ha \o replaced
         IN  IF startswith(ending, h.eo) THEN h.hae \o DropFirst(ending)
             ELSE IF startswith(ending, h.a) THEN h.hae \o DropFirst(ending)
             ELSE first

----------------------------------------------------------------------------
(* rules/irregular_reu.py *)

\* the default set of load_reu_irregular_stems: heu-reu, tta-reu, bu-reu,
\* o-reu, chi-reu, go-reu, nu-reu, ja-reu, mo-reu, i-reu, da-reu
REU_IRREGULAR_STEMS ==
    { <<55120, 47476>>, <<46384, 47476>>, <<48512, 47476>>, <<50724, 47476>>,
      <<52824, 47476>>, <<44256, 47476>>, <<45572, 47476>>, <<51088, 47476>>,
      <<47784, 47476>>, <<51060, 47476>>, <<45796, 47476>> }

check_reu_irregular(stem, ending) ==
    IF stem \notin REU_IRREGULAR_STEMS THEN FALSE
    ELSE IF ~endswith(stem, h.reu) THEN FALSE
    ELSE IF ~starts_with_listed_vowel(ending) THEN FALSE
    ELSE TRUE

apply_reu_irregular(stem, ending) ==
    LET harmonized_ending == apply_vowel_harmony(stem, ending)
        base_stem == DropLast(stem)
    IN  compose_str(decompose_str(base_stem) \o j.r \o j.r \o decompose_str(harmonized_ending))

----------------------------------------------------------------------------
(* rules/eu_drop.py *)

check_eu_drop(stem, ending) ==
    IF get_final_consonant(stem) # <<>> THEN FALSE
    ELSE IF get_vowel(stem) # j.eu THEN FALSE
    ELSE IF ~is_vowel_initial_ending(ending) THEN FALSE
    ELSE TRUE

apply_eu_drop_keeps_null_initial(stem, ending) ==
    LET harmonized_ending == apply_vowel_harmony(stem, ending)
        decomposed == decompose_str(stem)
        jamo_stem == IF endswith(decomposed, j.eu) THEN DropLast(decomposed) ELSE decomposed
        jamo_ending == decompose_str(harmonized_ending)
    IN  compose_str(apply_regular_contraction(jamo_stem \o jamo_ending))

apply_eu_drop(stem, ending) ==
    LET harmonized_ending == apply_vowel_harmony(stem, ending)
        decomposed == decompose_str(stem)
        jamo_stem == IF endswith(decomposed, j.eu) THEN DropLast(decomposed) ELSE decomposed
        decomposed_ending == decompose_str(harmonized_ending)
        jamo_ending == IF startswith(decomposed_ending, j.ng) THEN DropFirst(decomposed_ending)
                       ELSE decomposed_ending
    IN  compose_str(apply_regular_contraction(jamo_stem \o jamo_ending))

----------------------------------------------------------------------------
(* conjugator.py *)

INCOMPLETE_CONSONANTS ==
    { j.g, j.n, j.d, j.r, j.m, j.b, j.s, j.ng, j.j, j.ch, j.k, j.t, j.p, j.h }

VOWEL_JAMO_11 == { j.a, j.eo, j.o, j.u, j.eu, j.i, j.ae, j.e, j.oe, j.wi, j.ui }

_is_incomplete_consonant_ending(ending) ==
    IF ending = <<>> THEN FALSE
    ELSE Len(ending) = 1 /\ ending \in INCOMPLETE_CONSONANTS

_is_consonant_ending(ending) ==
    IF ending = <<>> THEN FALSE
    ELSE IF ending[1] < h.ga[1] THEN FALSE
    ELSE IF FirstChar(ending) \in VOWEL_JAMO_11 THEN FALSE
    ELSE decompose(FirstChar(ending))[1] # j.ng

_is_vowel_ending(ending) ==
    IF ending = <<>> THEN FALSE
    ELSE IF FirstChar(ending) \in VOWEL_JAMO_11 THEN TRUE
    ELSE IF ending[1] >= h.ga[1] THEN decompose(FirstChar(ending))[1] = j.ng
    ELSE FALSE

IRREGULAR_MARKERS ==
    { j.s \o t_irregular, j.d \o t_irregular, j.b \o t_irregular,
      h.reo \o t_irregular, j.h \o t_irregular }

_has_irregular_tag(tag) == \E marker \in IRREGULAR_MARKERS : contains(tag, marker)

\* The value returned, with the rule whose apply produced it; None comes
\* with the rule "none".
_apply_tagged_irregular(stem, ending, tag) ==
    IF (contains(tag, j.s \o t_irregular) \/ contains(tag, j.s))
       /\ check_s_irregular(stem, ending, tag)
    THEN [out |-> apply_s_irregular(stem, ending), rule |-> "s"]
    ELSE IF (contains(tag, j.d \o t_irregular) \/ contains(tag, j.d))
            /\ check_d_irregular(stem, ending, tag)
    THEN [out |-> apply_d_irregular(stem, ending), rule |-> "d"]
    ELSE IF (contains(tag, j.b \o t_irregular) \/ contains(tag, j.b))
            /\ check_b_irregular(stem, ending, tag)
    THEN [out |-> apply_b_irregular(stem, ending), rule |-> "b"]
    ELSE IF (contains(tag, h.reo \o t_irregular) \/ contains(tag, h.reo))
            /\ check_reo_irregular(stem, ending, tag)
    THEN [out |-> apply_reo_irregular(stem, ending), rule |-> "reo"]
    ELSE IF (contains(tag, j.h \o t_irregular) \/ contains(tag, j.h))
            /\ check_h_irregular(stem, ending, tag)
    THEN [out |-> apply_h_irregular(stem, ending), rule |-> "h"]
    ELSE [out |-> None, rule |-> "none"]

\* Step 4 of conjugate, for an ending that _is_vowel_ending accepts
conjugate_vowel_ending(stem, ending, tag) ==
    LET tagged == IF Truthy(tag) /\ _has_irregular_tag(tag)
                  THEN _apply_tagged_irregular(stem, ending, tag)
                  ELSE [out |-> None, rule |-> "none"]
    IN  IF Truthy(tagged.out) THEN tagged
        ELSE IF check_u_irregular(stem, ending) /\ Truthy(apply_u_irregular(stem, ending))
        THEN [out |-> apply_u_irregular(stem, ending), rule |-> "u"]
        ELSE IF check_yeo_irregular(stem, ending, tag)
                /\ Truthy(apply_yeo_irregular(stem, ending))
        THEN [out |-> apply_yeo_irregular(stem, ending), rule |-> "yeo"]
        ELSE IF check_reu_irregular(stem, ending)
                /\ Truthy(apply_reu_irregular(stem, ending))
        THEN [out |-> apply_reu_irregular(stem, ending), rule |-> "reu"]
        ELSE IF check_eu_drop(stem, ending) /\ Truthy(apply_eu_drop(stem, ending))
        THEN [out |-> apply_eu_drop(stem, ending), rule |-> "eu_drop"]
        ELSE [out |-> apply_regular_conjugation(stem, ending), rule |-> "regular"]

conjugate_without_early_return(stem, ending, tag, prev_word) ==
    IF check_l_drop(stem, ending) /\ Truthy(apply_l_drop(stem, ending))
    THEN [out |-> apply_l_drop(stem, ending), rule |-> "l_drop"]
    ELSE IF check_ida(stem) /\ Truthy(apply_ida_conjugation(prev_word, stem, ending))
    THEN [out |-> apply_ida_conjugation(prev_word, stem, ending), rule |-> "ida"]
    ELSE IF _is_vowel_ending(ending) THEN conjugate_vowel_ending(stem, ending, tag)
    ELSE [out |-> apply_regular_conjugation(stem, ending), rule |-> "regular"]

conjugate_returns_declined(stem, ending, tag, prev_word) ==
    IF ~Truthy(stem) \/ ~Truthy(ending)
    THEN [out |-> IF Truthy(stem) THEN stem ELSE <<>>, rule |-> "none"]
    ELSE IF check_l_drop(stem, ending)
    THEN [out |-> apply_l_drop(stem, ending), rule |-> "l_drop"]
    ELSE IF check_ida(stem)
    THEN [out |-> apply_ida_conjugation(prev_word, stem, ending), rule |-> "ida"]
    ELSE IF _is_incomplete_consonant_ending(ending)
    THEN [out |-> apply_regular_conjugation(stem, ending), rule |-> "regular"]
    ELSE IF _is_consonant_ending(ending)
    THEN [out |-> apply_regular_conjugation(stem, ending), rule |-> "regular"]
    ELSE IF _is_vowel_ending(ending)
    THEN IF Truthy(tag) /\ _has_irregular_tag(tag)
         THEN _apply_tagged_irregular(stem, ending, tag)
         ELSE conjugate_vowel_ending(stem, ending, tag)
    ELSE [out |-> apply_regular_conjugation(stem, ending), rule |-> "regular"]

\* The value conjugate returns, with the rule whose apply produced it
\* ("none" for the return before any rule is evaluated).
conjugate(stem, ending, tag, prev_word) ==
    IF ~Truthy(stem) \/ ~Truthy(ending)
    THEN [out |-> IF Truthy(stem) THEN stem ELSE <<>>, rule |-> "none"]
    ELSE IF check_l_drop(stem, ending) /\ Truthy(apply_l_drop(stem, ending))
    THEN [out |-> apply_l_drop(stem, ending), rule |-> "l_drop"]
    ELSE IF check_ida(stem) /\ Truthy(apply_ida_conjugation(prev_word, stem, ending))
    THEN [out |-> apply_ida_conjugation(prev_word, stem, ending), rule |-> "ida"]
    ELSE IF _is_incomplete_consonant_ending(ending)
    THEN [out |-> apply_regular_conjugation(stem, ending), rule |-> "regular"]
    ELSE IF _is_consonant_ending(ending)
    THEN [out |-> apply_regular_conjugation(stem, ending), rule |-> "regular"]
    ELSE IF _is_vowel_ending(ending) THEN conjugate_vowel_ending(stem, ending, tag)
    ELSE [out |-> apply_regular_conjugation(stem, ending), rule |-> "regular"]

----------------------------------------------------------------------------
(* sentence_reconstructor.py *)

\* part-of-speech tags of the analyzer
pos ==
    [ VV |-> <<86, 86>>, VA |-> <<86, 65>>, VX |-> <<86, 88>>,
      VCP |-> <<86, 67, 80>>, VCN |-> <<86, 67, 78>>,
      EP |-> <<69, 80>>, EF |-> <<69, 70>>, EC |-> <<69, 67>>,
      ETN |-> <<69, 84, 78>>, ETM |-> <<69, 84, 77>>,
      NNG |-> <<78, 78, 71>>, JKS |-> <<74, 75, 83>> ]

is_verb_tag(tag) == tag \in {pos.VV, pos.VA, pos.VX, pos.VCP, pos.VCN}

is_ending_tag(tag) == tag \in {pos.EP, pos.EF, pos.EC, pos.ETN, pos.ETM}

\* the characters of s before the first '+', all of s if there is none
RECURSIVE before_plus(_)
before_plus(s) ==
    IF s = <<>> \/ s[1] = 43 THEN <<>>
    ELSE <<s[1]>> \o before_plus(Tail(s))

\* tag.split('+')[1] when the tag has a '+', None otherwise
is_irregular_tag(tag) ==
    IF ~contains(tag, <<43>>) THEN None
    ELSE before_plus(SubSeq(tag, Len(before_plus(tag)) + 2, Len(tag)))

\* full_tag = stem_tag + ('+' + irreg if irreg else '')
full_tag(stem_tag) ==
    LET irreg == is_irregular_tag(stem_tag)
    IN  stem_tag \o (IF Truthy(irreg) THEN <<43>> \o irreg ELSE <<>>)

\* ''.join(parts)
RECURSIVE join(_)
join(parts) ==
    IF parts = <<>> THEN <<>> ELSE Head(parts) \o join(Tail(parts))

\* morphemes of the analysis: meok/VV, ha/VV, jis/VV+s-irregular (not one of
\* the five verb tags), eoss/EP, eo/EF, na-mu/NNG
Morphemes ==
    { [morph |-> <<47673>>, tag |-> pos.VV],
      [morph |-> h.ha, tag |-> pos.VV],
      [morph |-> <<51667>>, tag |-> <<86, 86, 43>> \o j.s \o t_irregular],
      [morph |-> <<50632>>, tag |-> pos.EP],
      [morph |-> h.eo, tag |-> pos.EF],
      [morph |-> <<45208, 47924>>, tag |-> pos.NNG] }

VerbMorphemes == { m \in Morphemes : is_verb_tag(m.tag) }

EndingMorphs == { m.morph : m \in { x \in Morphemes : is_ending_tag(x.tag) } }

FullTags == { full_tag(m.tag) : m \in VerbMorphemes }

\* the forms a verb stem can have taken after at most n endings
RECURSIVE FormsAfter(_)
FormsAfter(n) ==
    IF n = 0 THEN { m.morph : m \in VerbMorphemes }
    ELSE LET F == FormsAfter(n - 1)
         IN  F \cup { conjugate(c[1], c[2], c[3], None).out :
                         c \in F \X EndingMorphs \X FullTags }

\* from conjugator import conjugate: the imported function, on the arguments
\* the scan of at most MaxMorphs morphemes can pass (tag = full_tag, no prev_word)
imported_conjugate ==
    [ c \in FormsAfter(MaxMorphs - 2) \X EndingMorphs \X FullTags |->
        conjugate(c[1], c[2], c[3], None).out ]

----------------------------------------------------------------------------
(* State *)

VARIABLES
    cpc, cchar, ctriple, cback,          \* decompose / compose of one syllable
    spc, text, jamo_str, i, result,      \* decompose_str / compose_str
    pc, stem, ending, tag, prev_word,    \* a call of conjugate
    out, rule,                           \* what it returned, and from which rule
    rpc, word_morphs, word_i, word_j,    \* the scan of one word's morphemes
    verb_stem, stem_tag, endings, ending_k, current_form,
    word_result, reconstructed,
    calls, consumed,                     \* conjugate calls made, morphemes read
    conjugator                           \* the conjugate function the module imported

codecVars == <<cpc, cchar, ctriple, cback>>
strVars == <<spc, text, jamo_str, i, result>>
conjVars == <<pc, stem, ending, tag, prev_word, out, rule>>
reconVars ==
    <<rpc, word_morphs, word_i, word_j, verb_stem, stem_tag, endings, ending_k,
      current_form, word_result, reconstructed, calls, consumed, conjugator>>
vars == <<codecVars, strVars, conjVars, reconVars>>

----------------------------------------------------------------------------
(* Inputs of the codec *)

Syllables == { <<c>> : c \in HANGUL_BASE..HANGUL_END }

Initials == { CHOSUNG_LIST[k] : k \in 1..Len(CHOSUNG_LIST) }
Medials == { JUNGSUNG_LIST[k] : k \in 1..Len(JUNGSUNG_LIST) }
Finals == { JONGSUNG_LIST[k] : k \in 1..Len(JONGSUNG_LIST) }

\* sequences over S of length at most n
SeqsUpTo(S, n) == UNION { [1..m -> S] : m \in 0..n }

\* ga, gag, a, gabs (compound final), the letter a, and the standalone
\* jamo g, n, a
TextAlphabet == {44032, 44033, 50500, 44050, 97, 12593, 12596, 12623}

\* g, n, dd (an initial only), gs (a final only), the vowels a and eo, the
\* letter a
JamoAlphabet == {12593, 12596, 12600, 12595, 12623, 12627, 97}

Texts == SeqsUpTo(TextAlphabet, MaxTextLen)
JamoSeqs == SeqsUpTo(JamoAlphabet, MaxJamoLen)

----------------------------------------------------------------------------
(* Inputs of conjugate *)

\* last syllable of a stem: meok, jab, nol, deul, sseu, keu, ppeu, jis, nas,
\* deud, dob, chub, dab, rah, yah, reoh, joh, reu, pu, ha, i, bo, ga, ju, gi
StemLast ==
    { 47673, 51105, 45440, 46308, 50416, 53356, 49240, 51667, 45227, 46307,
      46037, 52645, 45813, 46999, 50583, 47111, 51339, 47476, 54392, 54616,
      51060, 48372, 44032, 51452, 44592 }

\* syllables before the last one: ba (bright), mo (bright), i (dark)
StemPre == { 48148, 47784, 51060 }

\* first syllable of an ending: eo, a, eoss, e, ya, eu, neun, neu, go, da
EndFirst == { 50612, 50500, 50632, 50640, 50556, 51004, 45716, 45712, 44256, 45796 }

\* later syllables of an ending: yo, ra, ya
EndRest == { 50836, 46972, 50556 }

\* endings that are one bare consonant: n, b, r, and dd (never a final)
BareJamoEndings == { j.n, j.b, j.r, j.dd }

Stems ==
    {<<>>} \cup { pre \o <<l>> : pre \in SeqsUpTo(StemPre, MaxStemLen - 1), l \in StemLast }

\* endings that are one bare vowel: eo
VowelJamoEndings == { j.eo }

Endings ==
    {<<>>} \cup BareJamoEndings \cup VowelJamoEndings
           \cup { <<f>> \o rest : f \in EndFirst, rest \in SeqsUpTo(EndRest, MaxEndLen - 1) }

\* VV+s-irregular, VV+d-irregular, VA+b-irregular, VV+reo-irregular,
\* VA+h-irregular, and the tags VV, XSV, VA without a marker
Tags ==
    { None, t_VV, t_XSV, <<86, 65>>,
      <<86, 86, 43>> \o j.s \o t_irregular,
      <<86, 86, 43>> \o j.d \o t_irregular,
      <<86, 65, 43>> \o j.b \o t_irregular,
      <<86, 86, 43>> \o h.reo \o t_irregular,
      <<86, 65, 43>> \o j.h \o t_irregular }

\* no previous word, na-mu (no final consonant), hak-saeng (final consonant)
PrevWords == { None, <<45208, 47924>>, <<54617, 49373>> }

----------------------------------------------------------------------------
(* Codec of one syllable: decompose then compose, and compose then decompose *)

CodecIdle ==
    /\ cpc = "idle" /\ cchar = <<>> /\ ctriple = <<>> /\ cback = <<>>

StrIdle ==
    /\ spc = "idle" /\ text = None /\ jamo_str = <<>> /\ i = 1 /\ result = <<>>

ConjIdle ==
    /\ pc = "idle" /\ stem = <<>> /\ ending = <<>> /\ tag = None /\ prev_word = None
    /\ out = None /\ rule = "none"

ReconIdle ==
    /\ rpc = "idle" /\ word_morphs = <<>> /\ word_i = 1 /\ word_j = 1
    /\ verb_stem = <<>> /\ stem_tag = <<>> /\ endings = <<>> /\ ending_k = 1
    /\ current_form = <<>> /\ word_result = <<>> /\ reconstructed = None
    /\ calls = <<>> /\ consumed = <<>>
    /\ conjugator = imported_conjugate

Decompose(ch) ==
    /\ cchar' = ch
    /\ ctriple' = decompose(ch)
    /\ cpc' = "decomposed"
    /\ UNCHANGED <<cback, strVars, conjVars, reconVars>>

ComposeBack ==
    /\ cpc = "decomposed"
    /\ cback' = compose(ctriple[1], ctriple[2], ctriple[3])
    /\ cpc' = "recomposed"
    /\ UNCHANGED <<cchar, ctriple, strVars, conjVars, reconVars>>

Compose(ini, med, fin) ==
    /\ ctriple' = <<ini, med, fin>>
    /\ cchar' = compose(ini, med, fin)
    /\ cpc' = "composed"
    /\ UNCHANGED <<cback, strVars, conjVars, reconVars>>

DecomposeBack ==
    /\ cpc = "composed"
    /\ cback' = decompose(cchar)
    /\ cpc' = "redecomposed"
    /\ UNCHANGED <<cchar, ctriple, strVars, conjVars, reconVars>>

CodecInit == CodecIdle /\ StrIdle /\ ConjIdle /\ ReconIdle

CodecNext ==
    \/ cpc = "idle" /\ \E ch \in Syllables : Decompose(ch)
    \/ ComposeBack
    \/ cpc = "idle" /\ \E ini \in Initials, med \in Medials, fin \in Finals :
                         Compose(ini, med, fin)
    \/ DecomposeBack

CodecSpec == CodecInit /\ [][CodecNext]_vars

----------------------------------------------------------------------------
(* Codec of strings: decompose_str, and the scan of compose_str *)

DecomposeStr(t) ==
    /\ text' = t
    /\ jamo_str' = decompose_str(t)
    /\ i' = 1
    /\ result' = <<>>
    /\ spc' = "composing"
    /\ UNCHANGED <<codecVars, conjVars, reconVars>>

\* compose_str called on a jamo sequence that no decompose_str produced, as
\* the rule modules do after editing the sequence
ComposeStrCall(s) ==
    /\ text' = None
    /\ jamo_str' = s
    /\ i' = 1
    /\ result' = <<>>
    /\ spc' = "composing"
    /\ UNCHANGED <<codecVars, conjVars, reconVars>>

ComposeStrStep ==
    /\ spc = "composing"
    /\ i <= Len(jamo_str)
    /\ LET st == compose_str_step(jamo_str, i)
       IN  /\ result' = result \o st.out
           /\ i' = st.next
    /\ UNCHANGED <<spc, text, jamo_str, codecVars, conjVars, reconVars>>

ComposeStrReturn ==
    /\ spc = "composing"
    /\ i > Len(jamo_str)
    /\ spc' = "done"
    /\ UNCHANGED <<text, jamo_str, i, result, codecVars, conjVars, reconVars>>

StrInit == CodecIdle /\ StrIdle /\ ConjIdle /\ ReconIdle

StrNext ==
    \/ spc = "idle" /\ \E t \in Texts : DecomposeStr(t)
    \/ spc = "idle" /\ \E s \in JamoSeqs : ComposeStrCall(s)
    \/ ComposeStrStep
    \/ ComposeStrReturn

StrSpec == StrInit /\ [][StrNext]_vars

----------------------------------------------------------------------------
(* The dispatcher: one call of conjugate *)

\* the caller passes its arguments
Call(s, e, t, p) ==
    /\ stem' = s
    /\ ending' = e
    /\ tag' = t
    /\ prev_word' = p
    /\ pc' = "called"
    /\ UNCHANGED <<out, rule, codecVars, strVars, reconVars>>

\* conjugate runs and returns
Conjugate ==
    /\ pc = "called"
    /\ \E r \in {conjugate(stem, ending, tag, prev_word)} :
           out' = r.out /\ rule' = r.rule
    /\ pc' = "returned"
    /\ UNCHANGED <<stem, ending, tag, prev_word, codecVars, strVars, reconVars>>

Init == CodecIdle /\ StrIdle /\ ConjIdle /\ ReconIdle

Next ==
    \/ pc = "idle" /\ \E s \in Stems, e \in Endings, t \in Tags, p \in PrevWords :
                        Call(s, e, t, p)
    \/ Conjugate

Spec == Init /\ [][Next]_vars

----------------------------------------------------------------------------
(* reconstruct_sentence: the scan of one word's morphemes *)

MorphLists == SeqsUpTo(Morphemes, MaxMorphs)

\* kiwi.analyze hands over the morphemes of a word; i = 0
Analyze(w) ==
    /\ rpc = "idle"
    /\ word_morphs' = w
    /\ word_i' = 1
    /\ word_result' = <<>>
    /\ rpc' = "scan"
    /\ UNCHANGED <<word_j, verb_stem, stem_tag, endings, ending_k, current_form,
                   reconstructed, calls, consumed, conjugator,
                   codecVars, strVars, conjVars>>

\* while i < len(word_morphs), a verb stem: stem, stem_tag, endings = [], j = i + 1
ReadVerb ==
    /\ rpc = "scan"
    /\ word_i <= Len(word_morphs)
    /\ is_verb_tag(word_morphs[word_i].tag)
    /\ verb_stem' = word_morphs[word_i].morph
    /\ stem_tag' = word_morphs[word_i].tag
    /\ endings' = <<>>
    /\ word_j' = word_i + 1
    /\ consumed' = Append(consumed, word_i)
    /\ rpc' = "collect"
    /\ UNCHANGED <<word_morphs, word_i, ending_k, current_form, word_result,
                   reconstructed, calls, conjugator,
                   codecVars, strVars, conjVars>>

\* while i < len(word_morphs), not a verb stem: word_result.append(morph); i += 1
AppendMorpheme ==
    /\ rpc = "scan"
    /\ word_i <= Len(word_morphs)
    /\ ~is_verb_tag(word_morphs[word_i].tag)
    /\ word_result' = Append(word_result, word_morphs[word_i].morph)
    /\ word_i' = word_i + 1
    /\ consumed' = Append(consumed, word_i)
    /\ UNCHANGED <<rpc, word_morphs, word_j, verb_stem, stem_tag, endings, ending_k,
                   current_form, reconstructed, calls, conjugator,
                   codecVars, strVars, conjVars>>

\* while j < len(word_morphs) and is_ending_tag(...): endings.append; j += 1
CollectEnding ==
    /\ rpc = "collect"
    /\ word_j <= Len(word_morphs)
    /\ is_ending_tag(word_morphs[word_j].tag)
    /\ endings' = Append(endings, word_morphs[word_j])
    /\ word_j' = word_j + 1
    /\ consumed' = Append(consumed, word_j)
    /\ UNCHANGED <<rpc, word_morphs, word_i, verb_stem, stem_tag, ending_k,
                   current_form, word_result, reconstructed, calls,
                   conjugator,
                   codecVars, strVars, conjVars>>

\* the inner while ends: current_form = stem, the for loop starts
EndCollect ==
    /\ rpc = "collect"
    /\ ~(word_j <= Len(word_morphs) /\ is_ending_tag(word_morphs[word_j].tag))
    /\ current_form' = verb_stem
    /\ ending_k' = 1
    /\ rpc' = "conjugate"
    /\ UNCHANGED <<word_morphs, word_i, word_j, verb_stem, stem_tag, endings,
                   word_result, reconstructed, calls, consumed,
                   conjugator,
                   codecVars, strVars, conjVars>>

\* for ending_morph in endings: current_form = conjugate(current_form, ...)
ConjugateEnding ==
    /\ rpc = "conjugate"
    /\ ending_k <= Len(endings)
    /\ \E r \in {conjugator[<<current_form, endings[ending_k].morph,
                              full_tag(stem_tag)>>]} :
           /\ current_form' = r
           /\ calls' = Append(calls, [stem |-> current_form,
                                      ending |-> endings[ending_k].morph,
                                      tag |-> full_tag(stem_tag),
                                      out |-> r])
    /\ ending_k' = ending_k + 1
    /\ UNCHANGED <<rpc, word_morphs, word_i, word_j, verb_stem, stem_tag, endings,
                   word_result, reconstructed, consumed, conjugator,
                   codecVars, strVars, conjVars>>

AppendForm_skips_next ==
    /\ rpc = "conjugate"
    /\ ending_k > Len(endings)
    /\ word_result' = Append(word_result, current_form)
    /\ word_i' = word_j + 1
    /\ rpc' = "scan"
    /\ UNCHANGED <<word_morphs, word_j, verb_stem, stem_tag, endings, ending_k,
                   current_form, reconstructed, calls, consumed,
                   conjugator,
                   codecVars, strVars, conjVars>>

\* the for loop ends: word_result.append(current_form); i = j
AppendForm ==
    /\ rpc = "conjugate"
    /\ ending_k > Len(endings)
    /\ word_result' = Append(word_result, current_form)
    /\ word_i' = word_j
    /\ rpc' = "scan"
    /\ UNCHANGED <<word_morphs, word_j, verb_stem, stem_tag, endings, ending_k,
                   current_form, reconstructed, calls, consumed,
                   conjugator,
                   codecVars, strVars, conjVars>>

\* the outer while ends: ''.join(word_result) is returned
Return ==
    /\ rpc = "scan"
    /\ word_i > Len(word_morphs)
    /\ reconstructed' = join(word_result)
    /\ rpc' = "done"
    /\ UNCHANGED <<word_morphs, word_i, word_j, verb_stem, stem_tag, endings,
                   ending_k, current_form, word_result, calls, consumed,
                   conjugator,
                   codecVars, strVars, conjVars>>

ReconInit == CodecIdle /\ StrIdle /\ ConjIdle /\ ReconIdle

\* one step of the loops of the scan
WordScanStep ==
    \/ ReadVerb
    \/ AppendMorpheme
    \/ CollectEnding
    \/ EndCollect
    \/ ConjugateEnding
    \/ AppendForm
    \/ Return

ReconNext ==
    \/ rpc = "idle" /\ \E w \in MorphLists : Analyze(w)
    \/ WordScanStep

ReconSpec == ReconInit /\ [][ReconNext]_vars

\* the loops are sequential code: once the scan has started, a step that can
\* be taken is taken
ReconLiveSpec == ReconSpec /\ WF_vars(WordScanStep)

----------------------------------------------------------------------------
(* Claims about the codec *)

\* C1: for every syllable s of the block compose(*decompose(s)) = s, and
\* for every triple of an initial, a medial and a final (possibly empty)
\* decompose(compose(i, m, f)) = (i, m, f).
C1_ExactInverses ==
    /\ cpc = "recomposed" => cback = cchar
    /\ cpc = "redecomposed" => cback = ctriple

C1_Witness ==
    /\ cpc = "redecomposed"
    /\ ctriple = <<CHOSUNG_LIST[19], JUNGSUNG_LIST[21], JONGSUNG_LIST[28]>>
    /\ cchar = <<HANGUL_END>>

\* the characters compose_str reads as jamo
ListedJamo(char) ==
    \/ InList(char, CHOSUNG_LIST)
    \/ InList(char, JUNGSUNG_LIST)
    \/ InList(char, SubSeq(JONGSUNG_LIST, 2, Len(JONGSUNG_LIST)))

\* C2 as stated: compose_str(decompose_str(s)) = s for every string of
\* syllables and pass-through characters, standalone jamo included.
C2_StringRoundTrip ==
    (spc = "done" /\ text # None) => result = text

\* C2 as amended: compose_str(decompose_str(s)) = s for every string of
\* syllables and pass-through characters that are not jamo of the initial,
\* medial or final lists.
C2_RoundTripWithoutJamo ==
    (spc = "done" /\ text # None
        /\ \A k \in 1..Len(text) : ~ListedJamo(<<text[k]>>))
    => result = text

C2_Witness ==
    spc = "done" /\ text = <<44032, 44033>> /\ result = text

\* what the current iteration of the scan appends to result
Appended == SubSeq(result', Len(result) + 1, Len(result'))

\* an iteration of the scan of compose_str takes place
ScanStep == spc = "composing" /\ i <= Len(jamo_str) /\ i' # i

\* the iteration at i reads an initial and a medial, and then a consonant
SyllableThenConsonant(k, IsConsonant(_)) ==
    /\ k >= 1
    /\ InList(At(jamo_str, k), CHOSUNG_LIST)
    /\ InList(At(jamo_str, k + 1), JUNGSUNG_LIST)
    /\ IsConsonant(At(jamo_str, k + 2))

\* the iteration at i attaches the consonant at i + 2 as the final
AttachesFinal ==
    /\ i' = i + 3
    /\ Len(Appended) = 1
    /\ decompose(Appended) =
           <<At(jamo_str, i), At(jamo_str, i + 1), At(jamo_str, i + 2)>>

\* the iteration at i leaves the consonant at i + 2 to the next iteration
LeavesConsonant ==
    /\ i' = i + 2
    /\ Appended = compose(At(jamo_str, i), At(jamo_str, i + 1), <<>>)

\* the iteration at i makes the consonant at i the initial of a syllable
PromotesInitial ==
    /\ Len(Appended) = 1
    /\ is_hangul(Appended)
    /\ decompose(Appended)[1] = At(jamo_str, i)

C3_Lookahead(IsFinal(_), IsInitial(_)) ==
    ScanStep =>
        /\ SyllableThenConsonant(i, IsFinal) =>
              /\ AttachesFinal <=> ~is_vowel_jamo(At(jamo_str, i + 3))
              /\ is_vowel_jamo(At(jamo_str, i + 3)) => LeavesConsonant
        /\ (SyllableThenConsonant(i - 2, IsInitial)
                /\ is_vowel_jamo(At(jamo_str, i + 1))) => PromotesInitial

IsFinalJamo(char) == char # <<>> /\ InList(char, JONGSUNG_LIST)
IsInitialJamo(char) == InList(char, CHOSUNG_LIST)

\* C3 as stated: after an initial and a medial, a following consonant is
\* attached as the final iff the token after it is not a medial vowel, and
\* otherwise it becomes the initial of the next composed syllable.
C3_AnyConsonant ==
    [][C3_Lookahead(is_consonant_jamo, is_consonant_jamo)]_vars

\* C3 as amended: after an initial and a medial, a following consonant that
\* is one of the 27 finals is attached as the final iff the token after it
\* is not a medial vowel; when that token is a medial vowel the consonant is
\* not taken as the final and, if it is one of the 19 initials, becomes the
\* initial of the next composed syllable.
C3_ValidFinalOrInitial ==
    [][C3_Lookahead(IsFinalJamo, IsInitialJamo)]_vars

C3_Witness ==
    /\ spc = "composing"
    /\ jamo_str = <<12593, 12623, 12596, 12623>>
    /\ i = 5
    /\ result = <<44032, 45208>>

----------------------------------------------------------------------------
(* Claims about conjugate *)

Returned == pc = "returned"

\* the last syllable of the stem, and the first of the ending, are syllables
StemEndsInSyllable == stem # <<>> /\ is_hangul(LastChar(stem))

\* the ending is a vowel-initial syllable ending: its first character is a
\* syllable with the null initial
VowelInitialSyllableEnding ==
    /\ ending # <<>>
    /\ is_hangul(FirstChar(ending))
    /\ decompose(FirstChar(ending))[1] = j.ng

\* one character of an ending in the series of a bright or of a dark stem
HarmonizedChar(c, bright) ==
    IF bright
    THEN (IF c = h.eo[1] THEN h.a[1] ELSE IF c = h.yeo[1] THEN h.ya[1]
          ELSE IF c = h.e[1] THEN h.ae[1] ELSE c)
    ELSE (IF c = h.a[1] THEN h.eo[1] ELSE IF c = h.ya[1] THEN h.yeo[1]
          ELSE IF c = h.ae[1] THEN h.e[1] ELSE c)

\* the ending in the series of the stem's last vowel
HarmonizedTo(s, e) ==
    [k \in 1..Len(e) |-> HarmonizedChar(e[k], is_bright_vowel(get_vowel(s)))]

\* the stem with the final consonant of its last syllable removed
WithoutFinal(s) ==
    LET d == decompose(LastChar(s))
    IN  DropLast(s) \o compose(d[1], d[2], <<>>)

\* C4: conjugate with an empty stem returns '' whatever the ending, the tag
\* and prev_word; with a non-empty stem and an empty ending it returns the
\* stem unchanged; no rule is evaluated in either case.
C4_EmptyInputs ==
    Returned =>
        /\ stem = <<>> => (out = <<>> /\ rule = "none")
        /\ (stem # <<>> /\ ending = <<>>) => (out = stem /\ rule = "none")

C4_Witness ==
    Returned /\ stem = <<45440>> /\ ending = <<>> /\ out = <<45440>> /\ rule = "none"

\* the twelve outcomes: the eleven rules and the regular fallback
RuleNames ==
    { "l_drop", "ida", "s", "d", "b", "reo", "h", "u", "yeo", "reu", "eu_drop",
      "regular" }

\* what the apply function of a rule returns for the arguments of the call
AppliedBy(r) ==
    CASE r = "l_drop" -> apply_l_drop(stem, ending)
      [] r = "ida" -> apply_ida_conjugation(prev_word, stem, ending)
      [] r = "s" -> apply_s_irregular(stem, ending)
      [] r = "d" -> apply_d_irregular(stem, ending)
      [] r = "b" -> apply_b_irregular(stem, ending)
      [] r = "reo" -> apply_reo_irregular(stem, ending)
      [] r = "h" -> apply_h_irregular(stem, ending)
      [] r = "u" -> apply_u_irregular(stem, ending)
      [] r = "yeo" -> apply_yeo_irregular(stem, ending)
      [] r = "reu" -> apply_reu_irregular(stem, ending)
      [] r = "eu_drop" -> apply_eu_drop(stem, ending)
      [] r = "regular" -> apply_regular_conjugation(stem, ending)

\* C5: for a non-empty stem and a non-empty ending conjugate returns a
\* non-empty string, which one of the eleven rules or the regular fallback
\* produced; None or '' from a rule that declined never reaches the caller.
C5_NeverDeclined ==
    (Returned /\ stem # <<>> /\ ending # <<>>) =>
        /\ out # None
        /\ out # <<>>
        /\ rule \in RuleNames
        /\ out = AppliedBy(rule)

\* meok + eo with the tag VV+s-irregular: the tagged rules all decline and
\* the regular fallback answers
C5_Witness ==
    /\ Returned
    /\ stem = <<47673>> /\ ending = <<50612>>
    /\ tag = <<86, 86, 43>> \o j.s \o t_irregular
    /\ _apply_tagged_irregular(stem, ending, tag).out = None
    /\ rule = "regular" /\ out = <<47673, 50612>>

\* C6: a stem whose last syllable has a final consonant, a vowel-initial
\* syllable ending and no tag: conjugate returns the stem unchanged followed
\* by the ending in the series of the stem's last vowel, nothing contracted.
C6_RegularNoContraction ==
    (Returned /\ StemEndsInSyllable /\ has_final_consonant(stem)
        /\ VowelInitialSyllableEnding /\ tag = None)
    => out = stem \o HarmonizedTo(stem, ending)

\* jab + eo-yo -> jab-a-yo
C6_Witness ==
    /\ Returned /\ tag = None
    /\ stem = <<51105>> /\ ending = <<50612, 50836>>
    /\ out = <<51105, 50500, 50836>>

\* C7: a stem whose last syllable has the final r and an ending whose first
\* syllable has the initial n and the medial eu (neun, neu-ra): conjugate
\* returns the stem without that final r, followed by the ending unchanged.
C7_LDropBeforeNeu ==
    (Returned /\ StemEndsInSyllable /\ get_final_consonant(stem) = j.r
        /\ ending # <<>> /\ is_hangul(FirstChar(ending))
        /\ decompose(FirstChar(ending))[1] = j.n
        /\ decompose(FirstChar(ending))[2] = j.eu)
    => out = WithoutFinal(stem) \o ending

\* C8: a stem whose last syllable has the final r and an ending that is one
\* bare jamo c of n, b, s, m: conjugate returns the stem with c in place of
\* the final r of its last syllable, and no standalone jamo.
C8_LDropBareJamo ==
    (Returned /\ StemEndsInSyllable /\ get_final_consonant(stem) = j.r
        /\ ending \in {j.n, j.b, j.s, j.m})
    => /\ out = with_final(stem, ending)
       /\ \A k \in 1..Len(out) : is_hangul(<<out[k]>>)

\* the case of C9: no final consonant, last vowel eu, not a dictionary stem,
\* no irregularity marker in the tag, a vowel-initial syllable ending
EuDropCase ==
    /\ Returned /\ StemEndsInSyllable
    /\ ~has_final_consonant(stem)
    /\ get_vowel(stem) = j.eu
    /\ stem \notin REU_IRREGULAR_STEMS
    /\ (tag = None \/ ~_has_irregular_tag(tag))
    /\ VowelInitialSyllableEnding

\* the stem without its last vowel, its last initial making one syllable
\* with the given vowel and the final consonant of the ending's first syllable
MergedWith(vowel) ==
    DropLast(stem)
        \o compose(decompose(LastChar(stem))[1], vowel, decompose(FirstChar(ending))[3])

\* C9 as stated: the stem's last initial forms one syllable with the first
\* vowel and the final consonant of the ending.
C9_EuDropEndingVowel ==
    EuDropCase =>
        /\ Len(out) = Len(stem) + Len(ending) - 1
        /\ SubSeq(out, 1, Len(stem)) = MergedWith(decompose(FirstChar(ending))[2])

\* what apply_eu_drop returns in the case of C9: the stem's last initial forms
\* one syllable with the first vowel of the ending as harmonized against the
\* stem's eu (a -> eo, ya -> yeo, ae -> e, every other vowel unchanged), also
\* when a bright syllable precedes (ba-ppeu + a -> ba-ppeo, see C28).
C9_EuDropHarmonizedVowel ==
    EuDropCase =>
        /\ Len(out) = Len(stem) + Len(ending) - 1
        /\ SubSeq(out, 1, Len(stem)) =
               MergedWith(decompose(<<HarmonizedChar(ending[1], FALSE)>>)[2])

\* sseu + eoss -> sseoss
C9_Witness ==
    /\ Returned /\ tag = None /\ rule = "eu_drop"
    /\ stem = <<50416>> /\ ending = <<50632>> /\ out = <<50044>>

\* C10: a stem with the final s, a vowel-initial ending and a tag with the
\* s-irregular marker: conjugate returns the stem without the final s followed
\* by the ending in the series of the stem's last vowel, nothing contracted.
C10_SIrregular ==
    (Returned /\ StemEndsInSyllable /\ get_final_consonant(stem) = j.s
        /\ VowelInitialSyllableEnding
        /\ tag # None /\ contains(tag, j.s \o t_irregular))
    => out = WithoutFinal(stem) \o HarmonizedTo(stem, ending)

\* the first syllable of the ending is a or eo with any final consonant
StartsWithAOrEo ==
    /\ VowelInitialSyllableEnding
    /\ decompose(FirstChar(ending))[2] \in {j.a, j.eo}

\* the tag carries the irregularity marker of the given consonant
TagMarks(c) == tag # None /\ contains(tag, c \o t_irregular)

\* C11: a stem with the final d, a vowel-initial ending and a tag with the
\* d-irregular marker: conjugate returns the stem with r in place of the final
\* d, followed by the ending in the series of the stem's last vowel, nothing
\* contracted; without the marker the stem comes back with its d.
C11_DIrregular ==
    (Returned /\ StemEndsInSyllable /\ get_final_consonant(stem) = j.d)
    => /\ (VowelInitialSyllableEnding /\ TagMarks(j.d))
              => out = with_final(stem, j.r) \o HarmonizedTo(stem, ending)
       /\ ~TagMarks(j.d)
              => /\ Len(out) >= Len(stem)
                 /\ SubSeq(out, 1, Len(stem)) = stem

\* C12: a stem with the final b, an ending starting with a or eo and a tag
\* with the b-irregular marker: conjugate drops the b and puts wa (one-syllable
\* stem with a bright vowel) or wo (otherwise) in place of the ending's first
\* syllable.
C12_BIrregular ==
    (Returned /\ StemEndsInSyllable /\ get_final_consonant(stem) = j.b
        /\ ending # <<>> /\ FirstChar(ending) \in {h.a, h.eo}
        /\ TagMarks(j.b))
    => out = WithoutFinal(stem)
                \o compose(j.ng,
                           IF Len(stem) = 1 /\ is_bright_vowel(get_vowel(stem))
                           THEN j.wa ELSE j.wo,
                           <<>>)
                \o DropFirst(ending)

\* the vowel that a + a, eo + eo and ya + a merge into after a dropped h
HMerged(v) ==
    IF v = j.a THEN j.ae ELSE IF v = j.eo THEN j.e ELSE IF v = j.ya THEN j.yae
    ELSE v

\* C13: a stem with the final h other than joh, an ending starting with a or
\* eo and a tag with the h-irregular marker: the h is dropped and the stem's
\* last vowel and the ending's first syllable become one syllable (a -> ae,
\* eo -> e, ya -> yae), so that the output is one syllable shorter.
C13_HIrregular ==
    (Returned /\ StemEndsInSyllable /\ get_final_consonant(stem) = j.h
        /\ stem # h.joh
        /\ ending # <<>> /\ FirstChar(ending) \in {h.a, h.eo}
        /\ TagMarks(j.h))
    => /\ Len(out) = Len(stem) + Len(ending) - 1
       /\ get_vowel(stem) \in {j.a, j.eo, j.ya}
              => out = DropLast(stem)
                          \o compose(decompose(LastChar(stem))[1],
                                     HMerged(get_vowel(stem)), <<>>)
                          \o DropFirst(ending)

\* the ending with the given initial and vowel in its first syllable, the
\* final consonant of that syllable and the later syllables kept
EndingRebuilt(initial, vowel) ==
    compose(initial, vowel, decompose(FirstChar(ending))[3]) \o DropFirst(ending)

\* C14: a stem of the irregular-stem dictionary that ends in reu, a
\* vowel-initial ending and no tag: conjugate returns the stem without reu,
\* with r as the final consonant of the syllable before it, followed by the
\* ending whose first syllable has the initial r and the vowel in the series of
\* the syllable before reu; every character of the output is a syllable.
C14_ReuIrregular ==
    (Returned /\ stem \in REU_IRREGULAR_STEMS /\ endswith(stem, h.reu)
        /\ VowelInitialSyllableEnding /\ tag = None)
    => /\ out = with_final(DropLast(stem), j.r)
                   \o EndingRebuilt(j.r,
                          decompose(<<HarmonizedChar(ending[1],
                              is_bright_vowel(get_vowel(DropLast(stem))))>>)[2])
       /\ \A k \in 1..Len(out) : is_hangul(<<out[k]>>)

\* C15: the stem pu and an ending starting with eo or a: conjugate returns
\* p + eo with the final consonant of the ending's first syllable, followed by
\* the later syllables of the ending.
C15_UIrregular ==
    (Returned /\ stem = h.pu /\ StartsWithAOrEo)
    => out = EndingRebuilt(j.p, j.eo)

\* C16: the stem ha, an ending starting with eo or a and no tag or the tag VV
\* or XSV: conjugate returns h + ae with the final consonant of the ending's
\* first syllable, followed by the later syllables of the ending.
C16_YeoIrregular ==
    (Returned /\ stem = h.ha /\ StartsWithAOrEo /\ tag \in {None, t_VV, t_XSV})
    => out = EndingRebuilt(j.h, j.ae)

\* prev_word is given and its last syllable has no final consonant
PrevWordOpen ==
    /\ prev_word # None /\ prev_word # <<>>
    /\ is_hangul(LastChar(prev_word))
    /\ ~has_final_consonant(prev_word)

\* prev_word is given and its last syllable has a final consonant
PrevWordClosed ==
    /\ prev_word # None /\ prev_word # <<>>
    /\ is_hangul(LastChar(prev_word))
    /\ has_final_consonant(prev_word)

\* the vowel that i merges into with eo, e and ya
IdaMerged(v) ==
    IF v = j.eo THEN j.yeo ELSE IF v = j.e THEN j.ye ELSE v

\* C17: the stem i, a prev_word without final consonant and an ending whose
\* first syllable has the null initial and the vowel eo, e or ya: conjugate
\* merges i into that syllable (yeo, ye, ya); no separate i comes first.
C17_IdaContraction ==
    (Returned /\ stem = h.i /\ PrevWordOpen /\ VowelInitialSyllableEnding
        /\ decompose(FirstChar(ending))[2] \in {j.eo, j.e, j.ya})
    => out = EndingRebuilt(j.ng, IdaMerged(decompose(FirstChar(ending))[2]))

\* C18: the stem i, a prev_word with a final consonant and an ending made of
\* syllables: conjugate returns i followed by the ending unchanged, neither
\* contracted nor harmonized.
C18_IdaNoContraction ==
    (Returned /\ stem = h.i /\ PrevWordClosed
        /\ ending # <<>> /\ \A k \in 1..Len(ending) : is_hangul(<<ending[k]>>))
    => out = stem \o ending

\* hak-saeng + i + a -> i-a (a stays a after the dark i)
C18_Witness ==
    /\ Returned /\ rule = "ida"
    /\ prev_word = <<54617, 49373>>
    /\ stem = h.i /\ ending = h.a /\ out = h.i \o h.a

\* the vowel the regular contraction table gives for a stem vowel and the
\* (harmonized) first vowel of the ending
RegularMerged(sv, ev) ==
    IF sv = j.o /\ ev = j.a THEN j.wa
    ELSE IF sv = j.u /\ ev = j.eo THEN j.wo
    ELSE IF sv = j.i /\ ev = j.eo THEN j.yeo
    ELSE IF sv = j.a /\ ev = j.a THEN j.a
    ELSE <<>>

\* C19: in regular conjugation of a stem without final consonant and a
\* vowel-initial syllable ending, the stem's last vowel and the harmonized first
\* vowel of the ending become one syllable (o + a -> wa, u + eo -> wo,
\* i + eo -> yeo, a + a -> a), unless the stem ends in gi, mi, bi or tti, when
\* nothing is merged.
C19_RegularContraction ==
    (Returned /\ rule = "regular" /\ StemEndsInSyllable
        /\ ~has_final_consonant(stem) /\ VowelInitialSyllableEnding)
    => LET harmonized == HarmonizedTo(stem, ending)
           merged == RegularMerged(get_vowel(stem),
                                   decompose(FirstChar(harmonized))[2])
       IN  IF LastChar(stem) \in {h.gi, h.mi, h.bi, h.tti}
           THEN out = stem \o harmonized
           ELSE merged # <<>>
                    => out = DropLast(stem)
                                \o compose(decompose(LastChar(stem))[1], merged,
                                           decompose(FirstChar(harmonized))[3])
                                \o DropFirst(harmonized)

\* the case of C20: the ending is one consonant jamo, and neither the r-drop
\* nor the copula rule applies to the stem
BareJamoCase ==
    /\ Returned /\ StemEndsInSyllable
    /\ Len(ending) = 1 /\ is_consonant_jamo(ending)
    /\ ~check_l_drop(stem, ending) /\ ~check_ida(stem)

\* what C20 states of the output for the consonant c = ending
BareJamoAttached ==
    IF has_final_consonant(stem)
    THEN out = stem \o compose(j.ng, j.eu, ending)
    ELSE out = with_final(stem, ending)

\* C20 as stated: for every consonant c the stem gets the new syllable eu + c
\* (stem with a final consonant) or c as the final of its last syllable.
C20_BareJamoAnyConsonant == BareJamoCase => BareJamoAttached

\* C20 as amended: the same for every consonant c that can be a final.
C20_BareJamoValidFinal ==
    (BareJamoCase /\ IsFinalJamo(ending)) => BareJamoAttached

\* jab + n -> jab-eun
C20_Witness ==
    /\ Returned /\ rule = "regular"
    /\ stem = <<51105>> /\ ending = j.n /\ out = <<51105, 51008>>

\* every character of s is a composed syllable
AllSyllables(s) == \A k \in 1..Len(s) : is_hangul(<<s[k]>>)

\* the first character of the ending is a syllable with a consonant initial,
\* and the r-drop does not trigger
ConsonantInitialCase ==
    /\ Returned /\ ending # <<>>
    /\ is_hangul(FirstChar(ending))
    /\ decompose(FirstChar(ending))[1] # j.ng
    /\ ~check_l_drop(stem, ending)

\* C21 as stated: for every stem, every tag and every ending whose first
\* character is a syllable with a consonant initial (no r-drop), conjugate
\* returns stem + ending.
C21_PlainConcatenation == ConsonantInitialCase => out = stem \o ending

\* C21 as amended: the same for a non-empty stem and an ending made of
\* syllables.
C21_PlainConcatenationNonEmpty ==
    (ConsonantInitialCase /\ stem # <<>> /\ AllSyllables(ending))
    => out = stem \o ending

\* meok + go-ya -> meok-go-ya (ya is not harmonized after the dark eo)
C21_Witness ==
    /\ Returned /\ rule = "regular"
    /\ stem = <<47673>> /\ ending = <<44256, 50556>>
    /\ out = <<47673, 44256, 50556>>

\* C22: for a stem other than i the result does not depend on prev_word.
C22_PrevWordIgnored ==
    (Returned /\ stem # h.i)
    => \A p \in PrevWords : conjugate(stem, ending, tag, p).out = out

\* ba-i + the bare vowel eo after na-mu: the copula rule would have merged
\* i + eo, the stem is not i and the regular form is returned
C22_Witness ==
    /\ Returned /\ prev_word = <<45208, 47924>>
    /\ stem = <<48148, 51060>> /\ ending = j.eo
    /\ apply_ida_contraction(decompose_str(stem) \o decompose_str(ending))
           # decompose_str(stem) \o decompose_str(ending)
    /\ rule = "regular"
    /\ out = conjugate(stem, ending, tag, None).out

\* a tag with none of the five markers that is neither VV nor XSV
UnrecognizedTag ==
    tag # None /\ tag # <<>> /\ ~_has_irregular_tag(tag) /\ tag \notin {t_VV, t_XSV}

\* the stem ha with an ending that starts with the character eo or a
HaBeforeEoOrA ==
    stem = h.ha /\ (startswith(ending, h.eo) \/ startswith(ending, h.a))

\* C23 as stated: with an unrecognized tag conjugate returns what it returns
\* with no tag.
C23_UnrecognizedTagAsAbsent ==
    (Returned /\ UnrecognizedTag)
    => out = conjugate(stem, ending, None, prev_word).out

\* C23 as amended: the same except for the stem ha before eo or a, where an
\* unrecognized tag bars the yeo rule and the regular form is returned.
C23_UnrecognizedTagExceptHa ==
    (Returned /\ UnrecognizedTag)
    => IF HaBeforeEoOrA
       THEN out = apply_regular_conjugation(stem, ending)
       ELSE out = conjugate(stem, ending, None, prev_word).out

\* sseu + eo with the tag VA -> sseo, by the eu-drop as with no tag
C23_Witness ==
    /\ Returned /\ tag = <<86, 65>> /\ rule = "eu_drop"
    /\ stem = <<50416>> /\ ending = h.eo /\ out = <<50024>>

\* C24: with no tag, a stem with the final s, or with the final h other than
\* joh, before a vowel-initial ending is answered by the s rule (the h rule),
\* and the output does not keep the final consonant.
C24_DefaultIrregular ==
    (Returned /\ tag = None /\ StemEndsInSyllable /\ VowelInitialSyllableEnding
        /\ \/ get_final_consonant(stem) = j.s
           \/ get_final_consonant(stem) = j.h /\ stem # h.joh)
    => /\ rule = IF get_final_consonant(stem) = j.s THEN "s" ELSE "h"
       /\ ~startswith(out, stem)

\* C25: harmonizing twice against the same stem gives what harmonizing once
\* gives.
C25_HarmonyIdempotent ==
    Returned =>
        apply_vowel_harmony(stem, apply_vowel_harmony(stem, ending))
            = apply_vowel_harmony(stem, ending)

\* jab + eo-yo: harmonized to a-yo, and a-yo harmonized again is a-yo
C25_Witness ==
    /\ Returned /\ rule = "regular"
    /\ stem = <<51105>> /\ ending = <<50612, 50836>>
    /\ apply_vowel_harmony(stem, ending) = <<50500, 50836>>
    /\ apply_vowel_harmony(stem, <<50500, 50836>>) = <<50500, 50836>>
    /\ out = <<51105, 50500, 50836>>

\* the output of the first rule, in the order r-drop, copula, s, d, b, reo, h,
\* u, yeo, reu, eu-drop, whose own check function holds of the call and whose
\* apply function returns a non-empty string; the regular form if there is none
HighestRanked ==
    IF check_l_drop(stem, ending) /\ Truthy(apply_l_drop(stem, ending))
    THEN apply_l_drop(stem, ending)
    ELSE IF check_ida(stem) /\ Truthy(apply_ida_conjugation(prev_word, stem, ending))
    THEN apply_ida_conjugation(prev_word, stem, ending)
    ELSE IF check_s_irregular(stem, ending, tag) /\ Truthy(apply_s_irregular(stem, ending))
    THEN apply_s_irregular(stem, ending)
    ELSE IF check_d_irregular(stem, ending, tag) /\ Truthy(apply_d_irregular(stem, ending))
    THEN apply_d_irregular(stem, ending)
    ELSE IF check_b_irregular(stem, ending, tag) /\ Truthy(apply_b_irregular(stem, ending))
    THEN apply_b_irregular(stem, ending)
    ELSE IF check_reo_irregular(stem, ending, tag)
            /\ Truthy(apply_reo_irregular(stem, ending))
    THEN apply_reo_irregular(stem, ending)
    ELSE IF check_h_irregular(stem, ending, tag) /\ Truthy(apply_h_irregular(stem, ending))
    THEN apply_h_irregular(stem, ending)
    ELSE IF check_u_irregular(stem, ending) /\ Truthy(apply_u_irregular(stem, ending))
    THEN apply_u_irregular(stem, ending)
    ELSE IF check_yeo_irregular(stem, ending, tag)
            /\ Truthy(apply_yeo_irregular(stem, ending))
    THEN apply_yeo_irregular(stem, ending)
    ELSE IF check_reu_irregular(stem, ending) /\ Truthy(apply_reu_irregular(stem, ending))
    THEN apply_reu_irregular(stem, ending)
    ELSE IF check_eu_drop(stem, ending) /\ Truthy(apply_eu_drop(stem, ending))
    THEN apply_eu_drop(stem, ending)
    ELSE apply_regular_conjugation(stem, ending)

\* C26: for a non-empty stem and ending conjugate returns the output of the
\* highest-ranked rule whose own check holds and whose apply answers, and the
\* regular form when there is none.
C26_DispatchOrder ==
    (Returned /\ stem # <<>> /\ ending # <<>>) => out = HighestRanked

\* C27: a stem ending in reu, a vowel-initial ending and a tag with the
\* reo-irregular marker: conjugate returns the whole stem, then reo in place of
\* the ending's first syllable, then the rest of the ending.
C27_ReoIrregular ==
    (Returned /\ endswith(stem, h.reu) /\ VowelInitialSyllableEnding
        /\ TagMarks(h.reo))
    => out = stem \o h.reo \o DropFirst(ending)

\* C28: when the eu-drop answers for a stem of two or more syllables, the
\* ending's first vowel is harmonized against the vowel of the syllable before
\* the dropped eu.
C28_EuDropHarmonyBefore ==
    (Returned /\ rule = "eu_drop" /\ Len(stem) >= 2 /\ AllSyllables(stem)
        /\ VowelInitialSyllableEnding)
    => /\ Len(out) = Len(stem) + Len(ending) - 1
       /\ SubSeq(out, 1, Len(stem)) =
              MergedWith(decompose(<<HarmonizedChar(ending[1],
                             is_bright_vowel(get_vowel(DropLast(stem))))>>)[2])

\* C30: a stem made of syllables and an ending made of syllables or of one
\* bare consonant: every character of the output is a syllable.
C30_OnlySyllables ==
    (Returned /\ AllSyllables(stem)
        /\ (AllSyllables(ending) \/ (Len(ending) = 1 /\ is_consonant_jamo(ending))))
    => AllSyllables(out)

----------------------------------------------------------------------------
(* Claims about reconstruct_sentence *)

\* the index of the last morpheme of the maximal run of endings after k
RECURSIVE RunEnd(_, _)
RunEnd(w, k) ==
    IF k + 1 <= Len(w) /\ is_ending_tag(w[k + 1].tag) THEN RunEnd(w, k + 1) ELSE k

\* the conjugate calls for the endings a..b of w, the first with the stem
\* form, each later one with the output of the call before it
RECURSIVE Threaded(_, _, _, _, _)
Threaded(w, form, verb_tag, a, b) ==
    IF a > b THEN <<>>
    ELSE LET o == conjugate(form, w[a].morph, verb_tag, None).out
         IN  <<[stem |-> form, ending |-> w[a].morph, tag |-> verb_tag, out |-> o]>>
                 \o Threaded(w, o, verb_tag, a + 1, b)

\* the calls that the morphemes k.. of w must cause
RECURSIVE ExpectedCalls(_, _)
ExpectedCalls(w, k) ==
    IF k > Len(w) THEN <<>>
    ELSE IF is_verb_tag(w[k].tag)
         THEN Threaded(w, w[k].morph, w[k].tag, k + 1, RunEnd(w, k))
                  \o ExpectedCalls(w, RunEnd(w, k) + 1)
         ELSE ExpectedCalls(w, k + 1)

\* what the morphemes k.. of w must emit: the last output of a verb's calls
\* (the verb itself when no ending follows), every other morpheme verbatim
RECURSIVE ExpectedEmitted(_, _)
ExpectedEmitted(w, k) ==
    IF k > Len(w) THEN <<>>
    ELSE IF is_verb_tag(w[k].tag)
         THEN LET cs == Threaded(w, w[k].morph, w[k].tag, k + 1, RunEnd(w, k))
              IN  <<IF cs = <<>> THEN w[k].morph ELSE cs[Len(cs)].out>>
                      \o ExpectedEmitted(w, RunEnd(w, k) + 1)
         ELSE <<w[k].morph>> \o ExpectedEmitted(w, k + 1)

ScanStarted == rpc = "scan"
ScanDone == rpc = "done"

\* at the end of the scan every morpheme was read once, in order, the calls
\* and the emitted parts are the expected ones
ScanInOrder ==
    ScanDone =>
        /\ consumed = [k \in 1..Len(word_morphs) |-> k]
        /\ calls = ExpectedCalls(word_morphs, 1)
        /\ word_result = ExpectedEmitted(word_morphs, 1)
        /\ reconstructed = join(word_result)

\* C29: the scan of a word's morphemes terminates, having read every morpheme
\* once in order; a verb followed by a maximal run of k endings causes k
\* conjugate calls in order, the first with the verb as stem, each later one
\* with the output before it, all with the verb's tag; the last output alone
\* is emitted, every other morpheme verbatim.
C29_ScanThreadsCalls == []ScanInOrder /\ (ScanStarted ~> ScanDone)

\* ha/VV, eoss/EP, eo/EF: two calls, the second on the output of the first
C29_Witness ==
    /\ ScanDone
    /\ word_morphs = <<[morph |-> h.ha, tag |-> pos.VV],
                       [morph |-> <<50632>>, tag |-> pos.EP],
                       [morph |-> h.eo, tag |-> pos.EF]>>
    /\ Len(calls) = 2
    /\ calls[1].stem = h.ha /\ calls[2].stem = calls[1].out
    /\ word_result = <<calls[2].out>>

====
